---- MODULE Spec2Model ----
(***************************************************************************)
(* Image classification and selection pipeline of src/image_classifier.py, *)
(* and the crawl jobs of src/web_api.py, src/db.py and src/ably_crawler.py. *)
(*                                                                         *)
(* Python values are modelled as follows.                                  *)
(*   - a str is a sequence of one-character strings; a Hangul syllable of  *)
(*     the colour names is written by its romanisation ("bo" for the       *)
(*     syllable of "ivory"), one sequence element per character;           *)
(*   - None / str results are tagged records (PyNone, PyStr(s));           *)
(*   - a float in [0,1] is an integer number of hundredths;                *)
(*   - a dict is a record plus the set "keys" of the keys it holds;        *)
(*   - a file name is a natural number (its rank in the sorted directory   *)
(*     listing), its path the pair <<directory, name>>.                    *)
(***************************************************************************)
EXTENDS Integers, Sequences, FiniteSets, TLC

VARIABLES
    pc,               \* position of process_product_async
    images,           \* sorted image list of the product directory
    expected_colors,  \* parse_expected_colors(meta)
    outcome,          \* per image: what the classifier call / json.loads yields
    task,             \* per image: position of classify_image_async
    semaphore,        \* asyncio.Semaphore._value
    progress,         \* progress dict {"done", "total"}
    printed,          \* progress lines written to stdout, in order
    ret,              \* per image: value returned by its task (future result)
    classifications,  \* result["classifications"]
    selected          \* result["selected"]

\* crawl jobs: the SQLite database, the executor threads and an API client
VARIABLES
    req,              \* per job: the CrawlRequest and what its crawl yields
    jobs,             \* table jobs, committed: job_id -> status, error
    products,         \* table products, committed: sno -> first/last seen job
    job_products,     \* table job_products, committed: set of <<job_id, sno>>
    lock,             \* the job whose connection holds the write lock, 0 if none
    pending,          \* tables as the open write transaction sees them
    worker,           \* per job: position of create_job / _run_job
    client            \* position of a get_job_result / get_job_products request

VARIABLES
    site,             \* exclude_snos and config.max_products_per_target of one call
    crawl             \* the locals of fetch_products_by_category

crawlvars == <<site, crawl>>

jobvars == <<req, jobs, products, job_products, lock, pending, worker, client>>

imagevars == <<pc, images, expected_colors, outcome, task, semaphore, progress,
               printed, ret, classifications, selected>>

vars == <<imagevars, jobvars, crawlvars>>

-----------------------------------------------------------------------------
(* Bounds *)

\* The source sets the ceiling to 10; the model scales it down so that
\* products with more images than permits are explored.
MAX_CONCURRENT_REQUESTS == 2
MaxImages == 3        \* images per product directory
MaxColorLen == 3      \* characters of a reported colour string
MaxExpected == 2      \* entries of expected_colors
MaxItems == 3         \* records of a classification list given to the selection
MaxJobs == 2          \* crawl jobs created through the API
MaxTarget == 2        \* largest config.max_products_per_target

\* ThreadPoolExecutor(max_workers=MAX_WORKERS), default of the source
MAX_WORKERS == 2

-----------------------------------------------------------------------------
(* Strings *)

Chars == {"a", "b", " ", ","}

StringsOver(alphabet, n) == UNION {[1..k -> alphabet] : k \in 0..n}

IsSpace(ch) == ch = " "

RECURSIVE lstrip(_)
lstrip(s) ==
    IF s = <<>> THEN s
    ELSE IF IsSpace(Head(s)) THEN lstrip(Tail(s)) ELSE s

RECURSIVE rstrip(_)
rstrip(s) ==
    IF s = <<>> THEN s
    ELSE IF IsSpace(s[Len(s)]) THEN rstrip(SubSeq(s, 1, Len(s) - 1)) ELSE s

\* str.strip()
strip(s) == rstrip(lstrip(s))

\* Python's  sub in s
contains(s, sub) ==
    \E k \in 0..(Len(s) - Len(sub)) : SubSeq(s, k + 1, k + Len(sub)) = sub

\* s.split(",")[0]
RECURSIVE split_first(_)
split_first(s) ==
    IF s = <<>> THEN s
    ELSE IF Head(s) = "," THEN <<>>
    ELSE <<Head(s)>> \o split_first(Tail(s))

-----------------------------------------------------------------------------
(* Python values *)

PyNone == [kind |-> "none", s |-> <<>>]
PyStr(str) == [kind |-> "str", s |-> str]

\* A raw colour as the model reports it: None, a str, a list (of which only
\* the first element is ever read) or anything else (number, dict, bool).
RawNone == [kind |-> "none", elem |-> "-", s |-> <<>>]
RawStr(str) == [kind |-> "str", elem |-> "-", s |-> str]
RawList(elem, str) == [kind |-> "list", elem |-> elem, s |-> str]
RawOther == [kind |-> "other", elem |-> "-", s |-> <<>>]

-----------------------------------------------------------------------------
(* coerce_color *)

\* the containment test with its operands swapped: c in opt
first_match_reversed(expected, c) ==
    IF \E k \in 1..Len(expected) : expected[k] # <<>> /\ contains(expected[k], c)
    THEN LET k == CHOOSE k \in 1..Len(expected) :
                    /\ expected[k] # <<>> /\ contains(expected[k], c)
                    /\ \A j \in 1..(k - 1) :
                          ~(expected[j] # <<>> /\ contains(expected[j], c))
         IN PyStr(expected[k])
    ELSE PyNone

\* the loop without its early return: the last match wins
first_match_last(expected, c) ==
    IF \E k \in 1..Len(expected) : expected[k] # <<>> /\ contains(c, expected[k])
    THEN LET k == CHOOSE k \in 1..Len(expected) :
                    /\ expected[k] # <<>> /\ contains(c, expected[k])
                    /\ \A j \in (k + 1)..Len(expected) :
                          ~(expected[j] # <<>> /\ contains(c, expected[j]))
         IN PyStr(expected[k])
    ELSE PyNone

\* a match that returns the reported colour instead of the matched option
first_match_returns_reported(expected, c) ==
    IF \E k \in 1..Len(expected) : expected[k] # <<>> /\ contains(c, expected[k])
    THEN PyStr(c)
    ELSE PyNone

\* for opt in expected_colors: if opt and opt in c: return opt
first_match(expected, c) ==
    IF \E k \in 1..Len(expected) : expected[k] # <<>> /\ contains(c, expected[k])
    THEN LET k == CHOOSE k \in 1..Len(expected) :
                    /\ expected[k] # <<>> /\ contains(c, expected[k])
                    /\ \A j \in 1..(k - 1) :
                          ~(expected[j] # <<>> /\ contains(c, expected[j]))
         IN PyStr(expected[k])
    ELSE PyNone

\* the isinstance(raw_color, str) branch
coerce_str(str, expected) ==
    LET c0 == strip(str)
        c  == IF \E k \in 1..Len(c0) : c0[k] = ","
              THEN strip(split_first(c0)) ELSE c0
    IN IF c0 = <<>> THEN PyNone
       ELSE IF expected # <<>> THEN first_match(expected, c)
       ELSE PyStr(c)

coerce_color(raw_color, expected) ==
    CASE raw_color.kind = "none" -> PyNone
      [] raw_color.kind = "list" ->
            IF raw_color.elem = "str" THEN coerce_str(raw_color.s, expected)
            ELSE PyNone   \* empty list, [None, ...] or a non-str first element
      [] raw_color.kind = "str" -> coerce_str(raw_color.s, expected)
      [] OTHER -> PyNone

-----------------------------------------------------------------------------
(* Classifier responses *)

\* the "extracted" value of a response: None, a dict, or anything else
ExNone == [kind |-> "none", composition |-> "null", material |-> "null"]
ExOther == [kind |-> "other", composition |-> "null", material |-> "null"]
ExDict(c, m) == [kind |-> "dict", composition |-> c, material |-> m]

RawKeys == {"category", "color", "confidence", "has_multiple_items",
            "quality_score", "extracted"}

\* A JSON object of the response.  A key outside "keys" is absent from the
\* dict; its field then holds a fixed filler that nothing reads.  "nulls"
\* holds the keys among category, confidence, quality_score and
\* has_multiple_items whose value is JSON null (a null colour is RawNone, a
\* null extracted ExNone).
RawObj(keys, category, color, confidence, quality, multi, extracted) ==
    [keys |-> keys,
     nulls |-> {},
     category |-> IF "category" \in keys THEN category ELSE "-",
     color |-> IF "color" \in keys THEN color ELSE RawNone,
     confidence |-> IF "confidence" \in keys THEN confidence ELSE 0,
     quality_score |-> IF "quality_score" \in keys THEN quality ELSE 0,
     has_multiple_items |-> IF "has_multiple_items" \in keys THEN multi ELSE FALSE,
     extracted |-> IF "extracted" \in keys THEN extracted ELSE ExNone]

EmptyObj == RawObj({}, "-", RawNone, 0, 0, FALSE, ExNone)

\* the object obj with the values of the keys in nulls replaced by null
WithNulls(obj, nulls) ==
    [obj EXCEPT !.nulls = nulls,
                !.category = IF "category" \in nulls THEN "-" ELSE @,
                !.confidence = IF "confidence" \in nulls THEN 0 ELSE @,
                !.quality_score = IF "quality_score" \in nulls THEN 0 ELSE @,
                !.has_multiple_items =
                    IF "has_multiple_items" \in nulls THEN FALSE ELSE @]

\* What run_in_executor(generate_content) followed by json.loads yields:
\*   raise        the call raises exc (transport error, timeout)
\*   badjson      response.text is not JSON: json.loads raises
\*   scalar       JSON that is neither an object nor an array
\*   emptylist    []
\*   list_nondict an array whose first element is not an object
\*   list_dict    an array whose first element is the object obj
\*   dict         the object obj
Raise(exc) == [kind |-> "raise", exc |-> exc, obj |-> EmptyObj]
BadJson == [kind |-> "badjson", exc |-> "JSONDecodeError", obj |-> EmptyObj]
Scalar == [kind |-> "scalar", exc |-> "-", obj |-> EmptyObj]
EmptyList == [kind |-> "emptylist", exc |-> "-", obj |-> EmptyObj]
ListNonDict == [kind |-> "list_nondict", exc |-> "-", obj |-> EmptyObj]
ListDict(obj) == [kind |-> "list_dict", exc |-> "-", obj |-> obj]
Dict(obj) == [kind |-> "dict", exc |-> "-", obj |-> obj]

\* exception classes the call and json.loads raise
CallErrors == {"TimeoutError", "ConnectionError"}

-----------------------------------------------------------------------------
(* classify_image_async: the body under the semaphore *)

file_path_of(image_path) == <<"product_dir", image_path>>

\* the exception the try block raises before a result dict exists, "-" if none
raised_by(out) ==
    CASE out.kind = "raise" -> out.exc
      [] out.kind = "badjson" -> "JSONDecodeError"
      [] out.kind \in {"dict", "list_dict"} -> "-"
      [] OTHER -> "ValueError"     \* Unexpected JSON shape

\* except ValueError
catches_value_errors_only(exc) ==
    exc \in {"ValueError", "JSONDecodeError", "UnicodeEncodeError"}

\* except Exception
catches(exc) ==
    exc \in CallErrors \cup {"ValueError", "JSONDecodeError", "UnicodeEncodeError"}

\* colour normalisation that ignores the swatch rule
result_color_no_swatch_rule(obj, expected) ==
    coerce_color(IF "color" \in obj.keys THEN obj.color ELSE RawNone, expected)

\* colour normalisation that also clears the colour of product_info
result_color_nulling_info(obj, expected) ==
    IF "category" \in obj.keys /\ obj.category \in {"color_swatch", "product_info"}
    THEN PyNone
    ELSE coerce_color(IF "color" \in obj.keys THEN obj.color ELSE RawNone,
                      expected)

\* colour normalisation of the result dict
result_color(obj, expected) ==
    IF "category" \in obj.keys /\ obj.category = "color_swatch"
    THEN PyNone
    ELSE coerce_color(IF "color" \in obj.keys THEN obj.color ELSE RawNone,
                      expected)

\* the dict returned on the success path
success_record(image_path, obj, expected) ==
    [keys |-> obj.keys \cup {"color", "file_path", "file_name"},
     nulls |-> obj.nulls,
     file_path |-> file_path_of(image_path),
     file_name |-> image_path,
     category |-> obj.category,
     color |-> result_color(obj, expected),
     confidence |-> obj.confidence,
     has_multiple_items |-> obj.has_multiple_items,
     quality_score |-> obj.quality_score,
     extracted |-> IF "extracted" \in obj.keys /\ obj.extracted.kind = "other"
                   THEN ExNone ELSE obj.extracted,
     error |-> "-"]

\* a failure record filed under the catch-all category
error_record_as_other(image_path, exc) ==
    [keys |-> {"file_path", "file_name", "category", "color", "confidence",
               "has_multiple_items", "quality_score", "error"},
     nulls |-> {},
     file_path |-> file_path_of(image_path),
     file_name |-> image_path,
     category |-> "other",
     color |-> PyNone,
     confidence |-> 0,
     has_multiple_items |-> FALSE,
     quality_score |-> 0,
     extracted |-> ExNone,
     error |-> exc]

\* the dict returned by the except branch
error_record(image_path, exc) ==
    [keys |-> {"file_path", "file_name", "category", "color", "confidence",
               "has_multiple_items", "quality_score", "error"},
     nulls |-> {},
     file_path |-> file_path_of(image_path),
     file_name |-> image_path,
     category |-> "error",
     color |-> PyNone,
     confidence |-> 0,
     has_multiple_items |-> FALSE,
     quality_score |-> 0,
     extracted |-> ExNone,
     error |-> exc]

\* a category text that holds a lone surrogate, which json.loads accepts
\* from an escape such as "\ud83d" and which stdout cannot encode
LoneSurrogate == "lone_surrogate"

\* the progress line of the success path prints result.get("category"): the
\* print raises UnicodeEncodeError, inside the try block and after the count
print_raises(obj) == "category" \in obj.keys /\ obj.category = LoneSurrogate

\* The whole body: [raised |-> exception that escapes, "-" if none,
\*                  value  |-> the dict returned,
\*                  counts |-> the number of times progress["done"] += 1 ran]
task_body(image_path, out, expected) ==
    LET exc == raised_by(out) IN
    IF exc = "-"
    THEN IF print_raises(out.obj) /\ catches("UnicodeEncodeError")
         THEN [raised |-> "-", counts |-> 2,
               value |-> error_record(image_path, "UnicodeEncodeError")]
         ELSE [raised |-> "-", counts |-> 1,
               value |-> success_record(image_path, out.obj, expected)]
    ELSE IF catches(exc)
    THEN [raised |-> "-", counts |-> 1, value |-> error_record(image_path, exc)]
    ELSE [raised |-> exc, counts |-> 0, value |-> error_record(image_path, exc)]

-----------------------------------------------------------------------------
(* select_best_images *)

\* the categories the prompt enumerates (the keys of IMAGE_CATEGORIES)
IMAGE_CATEGORIES ==
    {"worn_front", "worn_side", "worn_back", "product_front", "product_back",
     "detail_neckline", "detail_sleeve", "detail_hem", "detail_material",
     "detail_button", "color_swatch", "size_chart", "product_info",
     "marketing", "other"}

\* item.get(key, default) for the keys the selection reads
get_category(x) == IF "category" \in x.keys THEN x.category ELSE "-"
get_confidence(x) == IF "confidence" \in x.keys THEN x.confidence ELSE 0
get_quality(x) == IF "quality_score" \in x.keys THEN x.quality_score ELSE 0

\* Python's tuple order on integer tuples of equal length
RECURSIVE lex_less(_, _)
lex_less(a, b) ==
    IF a = <<>> THEN FALSE
    ELSE IF Head(a) # Head(b) THEN Head(a) < Head(b)
    ELSE lex_less(Tail(a), Tail(b))

filter(items, Test(_)) == SelectSeq(items, Test)

\* items.sort(key=Key)[0] of a non-empty list: the sort is stable, so the
\* result is the earliest item whose key no other item undercuts
sorted_first(items, Key(_)) ==
    LET k == CHOOSE k \in 1..Len(items) :
                /\ \A j \in 1..Len(items) : ~lex_less(Key(items[j]), Key(items[k]))
                /\ \A j \in 1..(k - 1) : lex_less(Key(items[k]), Key(items[j]))
    IN items[k]

\* a worn-shot key without the front-first component
worn_key_by_confidence(x) == <<0, 0 - get_confidence(x), 0 - get_quality(x)>>

worn_key(x) == <<IF get_category(x) # "worn_front" THEN 1 ELSE 0,
                 0 - get_confidence(x), 0 - get_quality(x)>>

conf_key(x) == <<0 - get_confidence(x), 0 - get_quality(x)>>

\* a null colour grouped like a colour name
has_color_with_null(x) == "color" \in x.keys

\* normalize_color(item.get("color")): the colour group of an item, if any
has_color(x) == "color" \in x.keys /\ x.color.kind = "str"

\* keys of by_color in insertion (first-seen) order
RECURSIVE color_order(_)
color_order(items) ==
    IF items = <<>> THEN <<>>
    ELSE LET rest == color_order(SubSeq(items, 1, Len(items) - 1))
             last == items[Len(items)]
         IN IF has_color(last) /\ ~(\E k \in 1..Len(rest) : rest[k] = last.color.s)
            THEN Append(rest, last.color.s) ELSE rest

by_color(items, c) == filter(items, LAMBDA x : has_color(x) /\ x.color.s = c)

worn_categories == {"worn_front", "worn_side", "worn_back"}

detail_categories == <<"product_front", "product_back", "detail_neckline",
                       "detail_sleeve", "detail_hem">>

RECURSIVE sum_seq(_)
sum_seq(q) == IF q = <<>> THEN 0 ELSE Head(q) + sum_seq(Tail(q))

max_conf(items) ==
    CHOOSE m \in {get_confidence(items[k]) : k \in 1..Len(items)} :
        \A k \in 1..Len(items) : get_confidence(items[k]) <= m

\* a score that leaves the coverage count out: (is_complete, confidence_sum)
color_score_without_coverage(items, c) ==
    LET group == by_color(items, c)
        of_cat(n) == filter(group, LAMBDA x : get_category(x) = detail_categories[n])
        covered == {n \in 1..Len(detail_categories) : of_cat(n) # <<>>}
        best(n) == IF n \in covered THEN max_conf(of_cat(n)) ELSE 0
        coverage == Cardinality(covered)
    IN <<IF coverage = Len(detail_categories) THEN 1 ELSE 0,
         sum_seq([n \in 1..Len(detail_categories) |-> best(n)])>>

\* color_score(c) = (is_complete, coverage, confidence_sum)
color_score(items, c) ==
    LET group == by_color(items, c)
        of_cat(n) == filter(group, LAMBDA x : get_category(x) = detail_categories[n])
        covered == {n \in 1..Len(detail_categories) : of_cat(n) # <<>>}
        best(n) == IF n \in covered THEN max_conf(of_cat(n)) ELSE 0
        coverage == Cardinality(covered)
    IN <<IF coverage = Len(detail_categories) THEN 1 ELSE 0,
         coverage,
         sum_seq([n \in 1..Len(detail_categories) |-> best(n)])>>

\* the last key of maximal score
representative_color_last_max(items) ==
    LET order == color_order(items)
        k == CHOOSE k \in 1..Len(order) :
                /\ \A j \in 1..Len(order) :
                      ~lex_less(color_score(items, order[k]), color_score(items, order[j]))
                /\ \A j \in (k + 1)..Len(order) :
                      lex_less(color_score(items, order[j]), color_score(items, order[k]))
    IN order[k]

\* the first colour seen, whatever the scores
representative_color_first_seen(items) == color_order(items)[1]

\* max(by_color.keys(), key=color_score): the first key of maximal score
representative_color_of(items) ==
    LET order == color_order(items)
        k == CHOOSE k \in 1..Len(order) :
                /\ \A j \in 1..Len(order) :
                      ~lex_less(color_score(items, order[k]), color_score(items, order[j]))
                /\ \A j \in 1..(k - 1) :
                      lex_less(color_score(items, order[j]), color_score(items, order[k]))
    IN order[k]

\* information candidates taken from every category
is_info_any_category(x) == TRUE

is_info(x) == get_category(x) \in {"product_info", "size_chart"}

truthy(v) == v \notin {"null", ""}

\* get_extracted(i).get("composition") or get_extracted(i).get("material")
has_composition(x) ==
    /\ "extracted" \in x.keys
    /\ x.extracted.kind = "dict"
    /\ (truthy(x.extracted.composition) \/ truthy(x.extracted.material))

\* best_item: <<>> stands for None
best_item(items) == IF items = <<>> THEN <<>> ELSE <<sorted_first(items, conf_key)>>

\* the product_info image preferred over the size chart
size_or_info_reversed(sizes, infos) == IF infos # <<>> THEN infos ELSE sizes

\* best_item(size charts) or best_item(product_info images)
size_or_info(sizes, infos) == IF sizes # <<>> THEN sizes ELSE infos

\* the product_info slot filled whenever a product_info image exists
keeps_info_always(infos, selected_size) == infos # <<>>

\* selected_info and (not selected_size or the two file paths differ)
keeps_info(infos, selected_size) ==
    /\ infos # <<>>
    /\ (selected_size = <<>> \/ infos[1].file_path # selected_size[1].file_path)

\* a result that always carries representative_color
selected_keys_with_color(order) ==
    {"worn_shots_by_color", "product_shots_by_color", "representative_details",
     "info_images", "representative_color"}

\* the keys of the dict returned: the four of the initial literal, and
\* representative_color when by_color is not empty
selected_keys(order) ==
    {"worn_shots_by_color", "product_shots_by_color", "representative_details",
     "info_images"}
    \cup (IF order # <<>> THEN {"representative_color"} ELSE {})

\* the sort keys negate confidence and quality_score: a null there is a
\* TypeError
\* detail candidates taken from every colour's images
rep_items_any_color(items, rep, cat) ==
    filter(items, LAMBDA x : has_color(x) /\ get_category(x) = cat)

\* cat_items: the images of the representative colour whose category is cat
rep_items(items, rep, cat) ==
    filter(by_color(items, rep), LAMBDA x : get_category(x) = cat)

key_fails(x) == "confidence" \in x.nulls \/ "quality_score" \in x.nulls

\* select_best_images raises instead of returning: some item whose sort key
\* gets computed has a null confidence or quality_score
select_raises(items) ==
    \E k \in 1..Len(items) :
        LET x == items[k] IN
        /\ key_fails(x)
        /\ \/ has_color(x) /\ get_category(x) \in worn_categories \cup {"product_front"}
           \/ /\ has_color(x)
              /\ x.color.s = representative_color_of(items)
              /\ \E n \in 1..Len(detail_categories) :
                    get_category(x) = detail_categories[n]
           \/ is_info(x)

select_best_images(items) ==
    LET order == color_order(items)
        colors == {order[k] : k \in 1..Len(order)}
        worn(c) == filter(by_color(items, c),
                          LAMBDA x : get_category(x) \in worn_categories)
        fronts(c) == filter(by_color(items, c),
                            LAMBDA x : get_category(x) = "product_front")
        rep == representative_color_of(items)
        rep_of(cat) == rep_items(items, rep, cat)
        detail_set == {detail_categories[n] : n \in 1..Len(detail_categories)}
        info_candidates == filter(items, is_info)
        sizes == best_item(filter(info_candidates,
                                  LAMBDA x : get_category(x) = "size_chart"))
        infos == best_item(filter(info_candidates,
                                  LAMBDA x : get_category(x) = "product_info"))
        selected_size == size_or_info(sizes, infos)
        selected_comp == best_item(filter(info_candidates, has_composition))
        info_keys ==
            (IF selected_size # <<>> THEN {"size"} ELSE {})
            \cup (IF selected_comp # <<>> THEN {"composition"} ELSE {})
            \cup (IF keeps_info(infos, selected_size) THEN {"product_info"} ELSE {})
    IN [keys |-> selected_keys(order),
        worn_shots_by_color |->
            [c \in {c \in colors : worn(c) # <<>>} |-> sorted_first(worn(c), worn_key)],
        product_shots_by_color |->
            [c \in {c \in colors : fronts(c) # <<>>} |-> sorted_first(fronts(c), conf_key)],
        representative_details |->
            IF order = <<>> THEN <<>>
            ELSE [cat \in {cat \in detail_set : rep_of(cat) # <<>>} |->
                     sorted_first(rep_of(cat), conf_key)],
        representative_color |-> IF order = <<>> THEN PyNone ELSE PyStr(rep),
        info_images |->
            [k \in info_keys |->
                CASE k = "size" -> selected_size[1]
                  [] k = "composition" -> selected_comp[1]
                  [] OTHER -> infos[1]]]

-----------------------------------------------------------------------------
(* classify_product_images_async / process_product_async *)

N == Len(images)

\* sorted(classifications, key=lambda x: x["file_name"]): a stable sort
RECURSIVE insert_by_file_name(_, _)
insert_by_file_name(x, sorted) ==
    IF sorted = <<>> THEN <<x>>
    ELSE IF x.file_name < Head(sorted).file_name THEN <<x>> \o sorted
    ELSE <<Head(sorted)>> \o insert_by_file_name(x, Tail(sorted))

RECURSIVE sort_by_file_name(_)
sort_by_file_name(items) ==
    IF items = <<>> THEN <<>>
    ELSE insert_by_file_name(items[Len(items)],
                             sort_by_file_name(SubSeq(items, 1, Len(items) - 1)))

\* the results of the finished tasks, in task order
RECURSIVE results_of(_)
results_of(r) ==
    IF r = <<>> THEN <<>>
    ELSE results_of(SubSeq(r, 1, Len(r) - 1)) \o r[Len(r)]

\* the task results in the order the tasks finished, unsorted
completion_order_classifications ==
    [k \in 1..Len(printed) |-> ret[printed[k][2]][1]]

\* the sorted results without the failure records
sorted_successes ==
    SelectSeq(sort_by_file_name(results_of(ret)), LAMBDA x : x.category # "error")

\* await asyncio.gather(*tasks) returns the results in task order; the list
\* is then sorted by file name
sorted_classifications ==
    sort_by_file_name(results_of(ret))

\* gather resumes its caller on the first task that finishes
gather_ready_first_completed ==
    \/ N = 0
    \/ \E i \in 1..N : task[i] \in {"done", "raised"}

\* gather resumes its caller when every task has returned, or as soon as one
\* task has raised
gather_ready ==
    \/ \A i \in 1..N : task[i] = "done"
    \/ \E i \in 1..N : task[i] = "raised"

\* a gate that admits every task
can_enter_always == TRUE

\* Semaphore.acquire returns at once only while a permit is left
can_enter == semaphore > 0

\* progress["done"] after the body ran progress["done"] += 1 counts times: once
\* on the success path, once in the except branch; no await separates the
\* read from the write or from the print that follows
done_after(done, counts) == done + counts

\* a permit given back only when the body returned a classification
release_on_success(permits, r) ==
    IF r.raised = "-" /\ r.value.category # "error" THEN permits + 1 ELSE permits

\* leaving "async with semaphore" releases the permit, whether the body
\* returned a classification, returned the error record or let an exception
\* escape
release(permits, r) == permits + 1

\* process_product_async enters classify_product_images_async, which lists the
\* directory, creates the semaphore, the progress dict and one task per image
Start ==
    /\ pc = "start"
    /\ pc' = "gather"
    /\ semaphore' = MAX_CONCURRENT_REQUESTS
    /\ progress' = [done |-> 0, total |-> N]
    /\ task' = [i \in 1..N |-> "pending"]
    /\ ret' = [i \in 1..N |-> <<>>]
    /\ UNCHANGED <<images, expected_colors, outcome, printed, classifications,
                   selected, jobvars, crawlvars>>

\* async with semaphore: a task enters when a permit is free and then awaits
\* the executor call
Acquire(i) ==
    /\ pc = "gather"
    /\ task[i] = "pending"
    /\ can_enter
    /\ semaphore' = semaphore - 1
    /\ task' = [task EXCEPT ![i] = "inflight"]
    /\ UNCHANGED <<pc, images, expected_colors, outcome, progress, printed, ret,
                   classifications, selected, jobvars, crawlvars>>

\* The executor call returns or raises; the rest of the body has no await and
\* runs in one step: parse, normalise, count, print, return, release.
Complete(i) ==
    /\ pc = "gather"
    /\ task[i] = "inflight"
    /\ LET r == task_body(images[i], outcome[i], expected_colors) IN
        IF r.raised = "-"
        THEN /\ progress' = [progress EXCEPT !.done = done_after(@, r.counts)]
             /\ printed' = Append(printed, <<done_after(progress.done, r.counts),
                                             images[i]>>)
             /\ ret' = [ret EXCEPT ![i] = <<r.value>>]
             /\ task' = [task EXCEPT ![i] = "done"]
        ELSE /\ task' = [task EXCEPT ![i] = "raised"]
             /\ UNCHANGED <<progress, printed, ret>>
    /\ semaphore' = release(semaphore, task_body(images[i], outcome[i], expected_colors))
    /\ UNCHANGED <<pc, images, expected_colors, outcome, classifications, selected,
                   jobvars, crawlvars>>

\* gather hands the results (or the first exception) to
\* classify_product_images_async, which sorts them and returns
GatherReturn ==
    /\ pc = "gather"
    /\ gather_ready
    /\ IF \E i \in 1..N : task[i] = "raised"
       THEN /\ pc' = "raised"
            /\ UNCHANGED classifications
       ELSE /\ pc' = "classified"
            /\ classifications' = sorted_classifications
    /\ UNCHANGED <<images, expected_colors, outcome, task, semaphore, progress,
                   printed, ret, selected, jobvars, crawlvars>>

\* process_product_async: selected = select_best_images(result["classifications"]);
\* an exception of the selection propagates to the caller
Select ==
    /\ pc = "classified"
    /\ IF select_raises(classifications)
       THEN /\ pc' = "raised"
            /\ UNCHANGED selected
       ELSE /\ pc' = "done"
            /\ selected' = <<select_best_images(classifications)>>
    /\ UNCHANGED <<images, expected_colors, outcome, task, semaphore, progress,
                   printed, ret, classifications, jobvars, crawlvars>>

Next ==
    \/ Start
    \/ \E i \in 1..N : Acquire(i)
    \/ \E i \in 1..N : Complete(i)
    \/ GatherReturn
    \/ Select

-----------------------------------------------------------------------------
(* Crawl jobs: create_job, _run_job and the tables of db.py *)

JobIds == 1..MaxJobs
Snos == {1, 2}

\* a row that does not exist
NoRow == [first_seen_job_id |-> 0, last_seen_job_id |-> 0]
NoJob == [status |-> "none", error |-> "null"]

\* no write transaction is open
NoPending == [products |-> [sno \in Snos |-> NoRow], job_products |-> {}]

\* the statement waits while another connection holds the write lock
lock_free(j) == lock \in {0, j}

\* the tables as a statement of job j's connection sees them: its own open
\* transaction, else the committed state
view(j) ==
    IF lock = j THEN pending
    ELSE [products |-> products, job_products |-> job_products]

\* get_known_snos: SELECT sno FROM products
get_known_snos(tab) == {sno \in Snos : tab[sno] # NoRow}

\* crawl_ably_products returns the products found, without the excluded
\* ones; the list holds pairwise distinct integer snos
crawl_ably_products(r, exclude_snos) ==
    SelectSeq(r.found, LAMBDA sno : sno \notin exclude_snos)

\* a job inserted in status running
create_job_running(tab, j) ==
    [tab EXCEPT ![j] = [status |-> "running", error |-> "null"]]

\* INSERT INTO jobs ... VALUES(?, 'queued', ?, ?, ?, NULL)
db_create_job(tab, j) ==
    [tab EXCEPT ![j] = [status |-> "queued", error |-> "null"]]

\* UPDATE jobs SET status=?, updated_at=?, error=? WHERE job_id=?
update_job_status(tab, j, status, error) ==
    [tab EXCEPT ![j] = [status |-> status, error |-> error]]

\* the UPDATE of an existing row, the INSERT of a new one
upsert_row(tab, sno, j, existing) ==
    IF existing
    THEN [tab EXCEPT ![sno].last_seen_job_id = j]
    ELSE [tab EXCEPT ![sno] = [first_seen_job_id |-> j, last_seen_job_id |-> j]]

\* the threads of the executor that run a job
Busy ==
    Cardinality({j \in JobIds :
        worker[j].pc \in {"begin", "try", "select", "write", "commit", "succeed",
                          "except"}})

\* POST /v1/jobs: the row is inserted and committed
CreateJob(j) ==
    /\ worker[j].pc = "idle"
    /\ lock_free(j)
    /\ jobs' = db_create_job(jobs, j)
    /\ worker' = [worker EXCEPT ![j].pc = "created"]
    /\ UNCHANGED <<req, products, job_products, lock, pending, client>>
    /\ UNCHANGED <<imagevars, crawlvars>>

\* EXECUTOR.submit(_run_job, job_id, req)
Submit(j) ==
    /\ worker[j].pc = "created"
    /\ worker' = [worker EXCEPT ![j].pc = "submitted"]
    /\ UNCHANGED <<req, jobs, products, job_products, lock, pending, client>>
    /\ UNCHANGED <<imagevars, crawlvars>>

\* a thread of the executor takes the job and opens its connection
Begin(j) ==
    /\ worker[j].pc = "submitted"
    /\ Busy < MAX_WORKERS
    /\ worker' = [worker EXCEPT ![j].pc = "begin"]
    /\ UNCHANGED <<req, jobs, products, job_products, lock, pending, client>>
    /\ UNCHANGED <<imagevars, crawlvars>>

\* db_update_job_status(status="running"), before the try block
MarkRunning(j) ==
    /\ worker[j].pc = "begin"
    /\ lock_free(j)
    /\ jobs' = update_job_status(jobs, j, "running", "null")
    /\ worker' = [worker EXCEPT ![j].pc = "try"]
    /\ UNCHANGED <<req, products, job_products, lock, pending, client>>
    /\ UNCHANGED <<imagevars, crawlvars>>

\* the try block up to the upsert: the request check, get_known_snos and the
\* crawl, which raise or yield the product list
Crawl(j) ==
    /\ worker[j].pc = "try"
    /\ IF req[j].raises
       THEN worker' = [worker EXCEPT ![j].pc = "except", ![j].exc = "CrawlError"]
       ELSE LET exclude_snos == IF req[j].dedupe_against_history
                                THEN get_known_snos(products) ELSE {}
                found == crawl_ably_products(req[j], exclude_snos)
            IN worker' = [worker EXCEPT ![j] =
                    [pc |-> IF found = <<>> THEN "commit" ELSE "select",
                     products |-> found, k |-> 1, existing |-> FALSE, exc |-> "-"]]
    /\ UNCHANGED <<req, jobs, products, job_products, lock, pending, client>>
    /\ UNCHANGED <<imagevars, crawlvars>>

\* upsert_products_for_job: SELECT sno FROM products WHERE sno=?
UpsertSelect(j) ==
    /\ worker[j].pc = "select"
    /\ worker' = [worker EXCEPT
          ![j].pc = "write",
          ![j].existing = view(j).products[worker[j].products[worker[j].k]] # NoRow]
    /\ UNCHANGED <<req, jobs, products, job_products, lock, pending, client>>
    /\ UNCHANGED <<imagevars, crawlvars>>

\* upsert_products_for_job: the UPDATE or INSERT of the product and the
\* INSERT OR IGNORE of its link, in the transaction the first of them opens;
\* the INSERT of an sno that has a row by now raises IntegrityError
UpsertWrite(j) ==
    /\ worker[j].pc = "write"
    /\ lock_free(j)
    /\ lock' = j
    /\ LET sno == worker[j].products[worker[j].k]
           seen == view(j)
       IN IF ~worker[j].existing /\ seen.products[sno] # NoRow
          THEN /\ pending' = seen
               /\ worker' = [worker EXCEPT ![j].pc = "except",
                                           ![j].exc = "IntegrityError"]
          ELSE /\ pending' =
                    [products |-> upsert_row(seen.products, sno, j, worker[j].existing),
                     job_products |-> seen.job_products \cup {<<j, sno>>}]
               /\ worker' = [worker EXCEPT
                     ![j].pc = IF worker[j].k = Len(worker[j].products)
                               THEN "commit" ELSE "select",
                     ![j].k = @ + 1]
    /\ UNCHANGED <<req, jobs, products, job_products, client>>
    /\ UNCHANGED <<imagevars, crawlvars>>

\* conn.commit() after the loop
Commit(j) ==
    /\ worker[j].pc = "commit"
    /\ IF lock = j
       THEN /\ products' = pending.products
            /\ job_products' = pending.job_products
            /\ lock' = 0
            /\ pending' = NoPending
       ELSE UNCHANGED <<products, job_products, lock, pending>>
    /\ worker' = [worker EXCEPT ![j].pc = "succeed"]
    /\ UNCHANGED <<req, jobs, client>>
    /\ UNCHANGED <<imagevars, crawlvars>>

\* db_update_job_status(status="succeeded"), the last statement of the try
MarkSucceeded(j) ==
    /\ worker[j].pc = "succeed"
    /\ lock_free(j)
    /\ jobs' = update_job_status(jobs, j, "succeeded", "null")
    /\ worker' = [worker EXCEPT ![j].pc = "closed"]
    /\ UNCHANGED <<req, products, job_products, lock, pending, client>>
    /\ UNCHANGED <<imagevars, crawlvars>>

\* except Exception: db_update_job_status(status="failed", error=str(e)); its
\* commit also commits what the upsert had written before it raised
MarkFailed(j) ==
    /\ worker[j].pc = "except"
    /\ lock_free(j)
    /\ jobs' = update_job_status(jobs, j, "failed", worker[j].exc)
    /\ IF lock = j
       THEN /\ products' = pending.products
            /\ job_products' = pending.job_products
            /\ lock' = 0
            /\ pending' = NoPending
       ELSE UNCHANGED <<products, job_products, lock, pending>>
    /\ worker' = [worker EXCEPT ![j].pc = "closed"]
    /\ UNCHANGED <<req, client>>
    /\ UNCHANGED <<imagevars, crawlvars>>

\* sqlite3.connect(timeout=5.0): a statement that waited for the write lock
\* that long raises OperationalError.  Before the try block and inside the
\* except branch the exception ends the thread, inside the try block it
\* leads to the except branch.
LockTimeout(j) ==
    /\ worker[j].pc \in {"begin", "write", "succeed", "except"}
    /\ ~lock_free(j)
    /\ worker' = [worker EXCEPT
          ![j].pc = IF worker[j].pc \in {"begin", "except"} THEN "died" ELSE "except",
          ![j].exc = "OperationalError"]
    /\ UNCHANGED <<req, jobs, products, job_products, lock, pending, client>>
    /\ UNCHANGED <<imagevars, crawlvars>>

\* a running job answered like a finished one
status_code_running_ok(status) ==
    CASE status = "none" -> 404
      [] status = "failed" -> 500
      [] status = "queued" -> 409
      [] OTHER -> 200

\* get_job_result / get_job_products: the HTTP status for the job's status
status_code(status) ==
    CASE status = "none" -> 404
      [] status = "failed" -> 500
      [] status # "succeeded" -> 409
      [] OTHER -> 200

\* GET /v1/jobs/{job_id}/result or /products: db_get_job and the checks; an
\* HTTPException ends the request, else the products are read next
GetJob(j) ==
    /\ client.pc = "idle"
    /\ client' = IF status_code(jobs[j].status) = 200
                 THEN [pc |-> "products", job |-> j]
                 ELSE client
    /\ UNCHANGED <<req, jobs, products, job_products, lock, pending, worker>>
    /\ UNCHANGED <<imagevars, crawlvars>>

\* db_get_job_products: the join of job_products and products
db_get_job_products(j) ==
    {sno \in Snos : <<j, sno>> \in job_products /\ products[sno] # NoRow}

\* the same request: db_get_job_products(job_id) is read and returned; the
\* client keeps the id of the job it was answered for
GetJobProducts ==
    /\ client.pc = "products"
    /\ client' = [pc |-> "idle", job |-> client.job]
    /\ UNCHANGED <<req, jobs, products, job_products, lock, pending, worker>>
    /\ UNCHANGED <<imagevars, crawlvars>>

NextJobs ==
    \/ \E j \in JobIds : CreateJob(j)
    \/ \E j \in JobIds : Submit(j)
    \/ \E j \in JobIds : Begin(j)
    \/ \E j \in JobIds : MarkRunning(j)
    \/ \E j \in JobIds : Crawl(j)
    \/ \E j \in JobIds : UpsertSelect(j)
    \/ \E j \in JobIds : UpsertWrite(j)
    \/ \E j \in JobIds : Commit(j)
    \/ \E j \in JobIds : MarkSucceeded(j)
    \/ \E j \in JobIds : MarkFailed(j)
    \/ \E j \in JobIds : LockTimeout(j)
    \/ \E j \in JobIds : GetJob(j)
    \/ GetJobProducts

-----------------------------------------------------------------------------
(* Crawl page loop: fetch_products_by_category of src/ably_crawler.py *)

\* CrawlConfig
min_purchase_count == 2000
min_review_count == 100
min_positive_percent == 95

CrawlSnos == {1, 2, 3}

\* the sno of a product whose "sno" is absent or not an int
NoSno == 0

\* int(v or 0): a JSON field is <<>> (null or absent) or <<n>>
int_or_0(v) == IF v = <<>> THEN 0 ELSE v[1]

\* fetch_review_info: <<>> for None (the request failed), else <<review>>;
\* a listing entry carries the answer the review endpoint gives for it
fetch_review_info(product) == product.review

\* a test that never finds the sno among the checked ones
seen_never(sno, checked_snos) == FALSE

\* sno in checked_snos
seen(sno, checked_snos) == sno \in checked_snos

\* the body of "for product in products", up to and including the append
examine(c, product, exclude_snos) ==
    LET sno == product.sno
        c1 == [c EXCEPT !.checked_snos = @ \cup {sno}]
        c2 == [c1 EXCEPT !.fetched[sno] = @ + 1]
        review == fetch_review_info(product)
    IN  IF sno = NoSno THEN c
        ELSE IF exclude_snos # {} /\ sno \in exclude_snos THEN c
        ELSE IF seen(sno, c.checked_snos) THEN c
        ELSE IF int_or_0(product.sell_count) < min_purchase_count THEN c1
        ELSE IF review = <<>> THEN c2
        ELSE IF int_or_0(review[1].count) < min_review_count THEN c2
        ELSE IF int_or_0(review[1].positive_percent) < min_positive_percent THEN c2
        ELSE [c2 EXCEPT !.found_products = Append(@,
                 [sno |-> sno,
                  sell_count |-> product.sell_count,
                  review_count |-> int_or_0(review[1].count),
                  positive_percent |-> int_or_0(review[1].positive_percent)])]

\* the listing entries a page can hold
SellCounts == {<<>>, <<min_purchase_count - 1>>, <<min_purchase_count>>}

Reviews ==
    {<<>>,
     <<[count |-> <<>>, positive_percent |-> <<min_positive_percent>>]>>,
     <<[count |-> <<min_review_count - 1>>, positive_percent |-> <<min_positive_percent>>]>>,
     <<[count |-> <<min_review_count>>, positive_percent |-> <<min_positive_percent - 1>>]>>,
     <<[count |-> <<min_review_count>>, positive_percent |-> <<min_positive_percent>>]>>}

ListingProducts ==
    [sno : CrawlSnos \cup {NoSno}, sell_count : SellCounts, review : Reviews]

NotCalled ==
    [pc |-> "idle", found_products |-> <<>>, checked_snos |-> {},
     fetched |-> [sno \in CrawlSnos |-> 0], next_token |-> ""]

\* the call: found_products = [], checked_snos = set(), the initial token
FetchCall ==
    /\ crawl.pc = "idle"
    /\ crawl' = [NotCalled EXCEPT !.pc = "while", !.next_token = "initial"]
    /\ UNCHANGED <<site, imagevars, jobvars>>

\* the while condition holds: the page of next_token is requested;
\* raise_for_status lets an HTTP error leave the function
GetPage ==
    /\ crawl.pc = "while"
    /\ Len(crawl.found_products) < site.max_products_per_target
    /\ \E ok \in BOOLEAN :
          crawl' = [crawl EXCEPT !.pc = IF ok THEN "for" ELSE "raised"]
    /\ UNCHANGED <<site, imagevars, jobvars>>

\* the while condition fails: return found_products
Return ==
    /\ crawl.pc = "while"
    /\ ~ (Len(crawl.found_products) < site.max_products_per_target)
    /\ crawl' = [crawl EXCEPT !.pc = "returned"]
    /\ UNCHANGED <<site, imagevars, jobvars>>

\* one iteration of the for loop, with its break when the target is reached
ForProduct ==
    /\ crawl.pc = "for"
    /\ \E product \in ListingProducts :
          LET c == examine(crawl, product, site.exclude_snos)
          IN  crawl' =
                IF /\ Len(c.found_products) > Len(crawl.found_products)
                   /\ Len(c.found_products) >= site.max_products_per_target
                THEN [c EXCEPT !.pc = "endfor"]
                ELSE c
    /\ UNCHANGED <<site, imagevars, jobvars>>

\* after the for loop: next_token = data.get("next_token"), break when it
\* is missing or empty
EndFor ==
    /\ crawl.pc \in {"for", "endfor"}
    /\ \E next_token \in {"", "next"} :
          crawl' = [crawl EXCEPT !.next_token = next_token,
                                 !.pc = IF next_token = "" THEN "returned"
                                        ELSE "while"]
    /\ UNCHANGED <<site, imagevars, jobvars>>

NextCrawl ==
    \/ FetchCall
    \/ GetPage
    \/ Return
    \/ ForProduct
    \/ EndFor

-----------------------------------------------------------------------------
(* Inputs *)

\* colour options of a product; one of them occurs inside another
ExpectedStrings == {<<"a">>, <<"b">>, <<"a", "b">>, <<"b", "a">>}

\* parse_expected_colors yields stripped, non-empty, pairwise distinct values
ExpectedLists ==
    {e \in UNION {[1..k -> ExpectedStrings] : k \in 0..MaxExpected} :
        \A i, j \in 1..Len(e) : i # j => e[i] # e[j]}

ColorStrings == StringsOver(Chars, MaxColorLen)

RawColors ==
    {RawNone, RawOther, RawList("empty", <<>>), RawList("none", <<>>),
     RawList("other", <<>>)}
    \cup {RawStr(str) : str \in ColorStrings}
    \cup {RawList("str", str) : str \in ColorStrings}

\* the colour names of the documented example
Ivory == <<"a", "i", "bo", "ri">>
Beige == <<"be", "i", "ji">>
Navy == <<"ne", "i", "bi">>
IvoryBlend == Ivory \o <<" ", "hon", "bang">>

FullKeys == RawKeys

Obj(category, color) == RawObj(FullKeys, category, color, 90, 80, FALSE, ExNone)

\* responses of the orchestration runs
SmallOutcomes ==
    {Raise("TimeoutError"), Scalar,
     Dict(Obj("worn_front", RawStr(<<"a">>))),
     Dict(Obj("product_info", RawStr(<<"a">>))),
     ListDict(Obj("color_swatch", RawStr(<<"b">>))),
     Dict(RawObj(FullKeys, "size_chart", RawNone, 70, 80, FALSE,
                 ExDict("cotton", "null"))),
     Dict(Obj(LoneSurrogate, RawStr(<<"a">>)))}

SmallExpected == {<<>>, <<<<"a">>>>}

\* responses of the normaliser runs
NormalizerOutcomes ==
    {Raise(e) : e \in CallErrors}
    \cup {BadJson, Scalar, EmptyList, ListNonDict}
    \cup {Dict(Obj(cat, col)) :
            cat \in {"color_swatch", "product_info", "worn_front"},
            col \in RawColors}
    \cup {ListDict(Obj(cat, RawStr(<<"a">>))) :
            cat \in {"color_swatch", "product_info"}}
    \cup {Dict(RawObj(FullKeys \ {"category"}, "-", RawStr(<<"a">>), 90, 80,
                      FALSE, ExOther)),
          Dict(RawObj(FullKeys \ {"color"}, "color_swatch", RawNone, 90, 80,
                      TRUE, ExNone)),
          Dict(EmptyObj),
          Dict(Obj("lifestyle", RawStr(<<"a">>))),
          Dict(WithNulls(Obj("worn_front", RawStr(<<"a">>)), {"confidence"})),
          Dict(WithNulls(Obj("marketing", RawStr(<<"a">>)), {"quality_score"}))}

ExampleOutcomes ==
    {Dict(Obj("worn_front", RawStr(IvoryBlend))),
     Dict(Obj("worn_front", RawStr(Navy)))}

\* the crawl requests: whether known products are excluded, and what the
\* crawl does (it raises, or finds these products before the exclusion)
CrawlRequest(dedupe, raises, found) ==
    [dedupe_against_history |-> dedupe, raises |-> raises, found |-> found]

Requests ==
    {CrawlRequest(TRUE, TRUE, <<>>),
     CrawlRequest(TRUE, FALSE, <<>>),
     CrawlRequest(TRUE, FALSE, <<1>>),
     CrawlRequest(TRUE, FALSE, <<1, 2>>),
     CrawlRequest(FALSE, FALSE, <<2, 1>>)}

\* no call of fetch_products_by_category is under way
CrawlIdle ==
    /\ site = [exclude_snos |-> {}, max_products_per_target |-> 0]
    /\ crawl = NotCalled

IdleWorker ==
    [pc |-> "idle", products |-> <<>>, k |-> 0, existing |-> FALSE, exc |-> "-"]

\* an empty database, no job created, no request under way
JobsStart ==
    /\ jobs = [j \in JobIds |-> NoJob]
    /\ products = [sno \in Snos |-> NoRow]
    /\ job_products = {}
    /\ lock = 0
    /\ pending = NoPending
    /\ worker = [j \in JobIds |-> IdleWorker]
    /\ client = [pc |-> "idle", job |-> 0]

JobsIdle ==
    /\ req = [j \in JobIds |-> CrawlRequest(TRUE, TRUE, <<>>)]
    /\ JobsStart

Idle ==
    /\ pc = "start"
    /\ task = <<>>
    /\ semaphore = MAX_CONCURRENT_REQUESTS
    /\ progress = [done |-> 0, total |-> 0]
    /\ printed = <<>>
    /\ ret = <<>>
    /\ classifications = <<>>
    /\ selected = <<>>

\* a product directory of up to MaxImages images
Init ==
    /\ images \in {[i \in 1..n |-> i] : n \in 0..MaxImages}
    /\ expected_colors \in SmallExpected
    /\ outcome \in [1..Len(images) -> SmallOutcomes]
    /\ Idle
    /\ JobsIdle /\ CrawlIdle

Spec == Init /\ [][Next]_vars

\* one call that fails and one that succeeds: what the permits depend on
PermitOutcomes ==
    {Raise("TimeoutError"), Dict(Obj("worn_front", RawStr(<<"a">>)))}

InitPermits ==
    /\ images \in {[i \in 1..n |-> i] : n \in 0..MaxImages}
    /\ expected_colors = <<>>
    /\ outcome \in [1..Len(images) -> PermitOutcomes]
    /\ Idle
    /\ JobsIdle /\ CrawlIdle

\* the event loop runs a task that can run, and every executor call returns
\* or raises
FairSpec == InitPermits /\ [][Next]_vars /\ WF_vars(Next)

\* a product of one image, over the responses the normaliser has to handle
InitNormalizer ==
    /\ images = <<1>>
    /\ \/ /\ expected_colors \in ExpectedLists
          /\ outcome \in [{1} -> NormalizerOutcomes]
       \/ /\ expected_colors = <<Ivory, Beige>>
          /\ outcome \in [{1} -> ExampleOutcomes]
    /\ Idle
    /\ JobsIdle /\ CrawlIdle

SpecNormalizer == InitNormalizer /\ [][Next]_vars

\* the selection alone: the state in which classify_product_images_async has
\* just returned the sorted records of the responses in outcome
Classified ==
    /\ expected_colors = <<>>
    /\ task = [i \in 1..N |-> "done"]
    /\ semaphore = MAX_CONCURRENT_REQUESTS
    /\ progress = [done |-> N, total |-> N]
    /\ printed = [i \in 1..N |-> <<i, images[i]>>]
    /\ ret = [i \in 1..N |-> <<task_body(images[i], outcome[i], <<>>).value>>]
    /\ classifications =
          [i \in 1..N |-> task_body(images[i], outcome[i], <<>>).value]
    /\ pc = "classified"
    /\ selected = <<>>
    /\ JobsIdle /\ CrawlIdle

\* (confidence, quality_score) pairs in hundredths
Scores == {<<40, 50>>, <<99, 50>>, <<99, 80>>}

Scored(category, color, sc) ==
    RawObj(FullKeys, category, color, sc[1], sc[2], FALSE, ExNone)

\* worn shots of two colours, and one without a colour
WornPool ==
    {Scored(cat, RawStr(<<"a">>), sc) : cat \in worn_categories, sc \in Scores}
    \cup {Scored(cat, RawStr(<<"b">>), <<99, 50>>) : cat \in worn_categories}
    \cup {Scored("worn_front", RawNone, <<99, 80>>)}

\* detail shots of two colours, and one without a colour
DetailPool ==
    {Scored(cat, RawStr(<<"a">>), sc) :
        cat \in {"product_front", "product_back", "detail_neckline"}, sc \in Scores}
    \cup {Scored(cat, RawStr(<<"b">>), <<99, 50>>) :
            cat \in {"product_front", "product_back", "detail_neckline"}}
    \cup {Scored("product_front", RawNone, <<99, 80>>)}

Info(category, sc, extracted) ==
    RawObj(FullKeys, category, RawNone, sc[1], sc[2], FALSE, extracted)

\* size charts and product information images, with and without extracted
\* composition text, and a material close-up that carries such text
InfoPool ==
    {Info(cat, sc, ex) : cat \in {"size_chart", "product_info"}, sc \in Scores,
                         ex \in {ExNone, ExDict("cotton", "null")}}
    \cup {Info("detail_material", <<99, 80>>, ExDict("cotton", "null")),
          Info("product_info", <<99, 80>>, ExDict("null", "wool")),
          Info("size_chart", <<99, 80>>, ExDict("", "")),
          Info("size_chart", <<99, 80>>, ExOther)}

Pools == {WornPool, DetailPool, InfoPool}

RECURSIVE seq_of(_)
seq_of(S) ==
    IF S = {} THEN <<>>
    ELSE LET m == CHOOSE m \in S : \A x \in S : m <= x
         IN <<m>> \o seq_of(S \ {m})

\* colour col covering the detail categories numbered in S, each at conf
Covering(col, S, conf) ==
    [k \in 1..Cardinality(S) |->
        Dict(Scored(detail_categories[seq_of(S)[k]], RawStr(col), <<conf, 80>>))]

\* two colours with any two coverages of the five detail categories
CoverageOutcomes ==
    LET sets == SUBSET (1..Len(detail_categories))
        confs == {<<50, 99>>, <<99, 50>>, <<50, 50>>}
    IN UNION {{Covering(<<"a">>, SA, cf[1]) \o Covering(<<"b">>, SB, cf[2]),
               Covering(<<"b">>, SB, cf[2]) \o Covering(<<"a">>, SA, cf[1])} :
                 SA \in sets, SB \in sets, cf \in confs}

InitSelect ==
    /\ \/ \E n \in 0..MaxItems, P \in Pools :
            /\ images = [i \in 1..n |-> i]
            /\ outcome \in [1..n -> {Dict(o) : o \in P}]
       \/ /\ outcome \in CoverageOutcomes
          /\ images = [i \in 1..Len(outcome) |-> i]
    /\ Classified

NextSelect == Select

SpecSelect == InitSelect /\ [][NextSelect]_vars

\* select_best_images as a function of its argument: the same records in any
\* arrangement.  Worn and product shots of two colours with distinct scores,
\* a second detail of colour b, a size chart and a product information image.
AnyOrderPool ==
    {Scored("worn_front", RawStr(<<"a">>), <<40, 50>>),
     Scored("worn_front", RawStr(<<"a">>), <<99, 50>>),
     Scored("product_front", RawStr(<<"a">>), <<99, 80>>),
     Scored("product_front", RawStr(<<"b">>), <<99, 50>>),
     Scored("detail_hem", RawStr(<<"b">>), <<40, 50>>),
     Info("size_chart", <<99, 80>>, ExDict("cotton", "null")),
     Info("product_info", <<40, 50>>, ExNone)}

\* the arrangements of n items
Orders(n) == {p \in [1..n -> 1..n] : \A i, j \in 1..n : p[i] = p[j] => i = j}

InitAnyOrder ==
    \E n \in 0..MaxItems :
        /\ images = [i \in 1..n |-> i]
        /\ outcome \in [1..n -> {Dict(o) : o \in AnyOrderPool}]
        /\ expected_colors = <<>>
        /\ task = [i \in 1..n |-> "done"]
        /\ semaphore = MAX_CONCURRENT_REQUESTS
        /\ progress = [done |-> n, total |-> n]
        /\ printed = [i \in 1..n |-> <<i, images[i]>>]
        /\ ret = [i \in 1..n |-> <<task_body(images[i], outcome[i], <<>>).value>>]
        /\ \E p \in Orders(n) :
              classifications =
                  [i \in 1..n |-> task_body(images[p[i]], outcome[p[i]], <<>>).value]
        /\ pc = "classified"
        /\ selected = <<>>
        /\ JobsIdle /\ CrawlIdle

SpecAnyOrder == InitAnyOrder /\ [][NextSelect]_vars

\* the API server after startup: an empty database and the requests that
\* up to MaxJobs clients will post
InitJobs ==
    /\ req \in [JobIds -> Requests]
    /\ JobsStart
    /\ CrawlIdle
    /\ images = <<>>
    /\ expected_colors = <<>>
    /\ outcome = <<>>
    /\ Idle

SpecJobs == InitJobs /\ [][NextJobs]_vars

\* one call of fetch_products_by_category, any exclude_snos and any target
InitCrawl ==
    /\ site \in [exclude_snos : SUBSET CrawlSnos,
                 max_products_per_target : 0..MaxTarget]
    /\ crawl = NotCalled
    /\ images = <<>>
    /\ expected_colors = <<>>
    /\ outcome = <<>>
    /\ Idle
    /\ JobsIdle

SpecCrawl == InitCrawl /\ [][NextCrawl]_vars

-----------------------------------------------------------------------------
(* Properties *)

Tasks == DOMAIN task
Finished(i) == i \in Tasks /\ task[i] = "done"
InFlight == {i \in Tasks : task[i] = "inflight"}
Returned == pc \in {"classified", "done"}

\* the response is one JSON object, or an array that starts with one
Interpretable(out) == out.kind \in {"dict", "list_dict"}

\* the inputs alone determine this list: one record per image, in image order
ReferenceClassifications ==
    [i \in 1..N |-> task_body(images[i], outcome[i], expected_colors).value]

\* sub occurs in str: str = prefix \o sub \o suffix
Occurs(sub, str) ==
    \E a, b \in 0..Len(str) :
        /\ a + Len(sub) + b = Len(str)
        /\ \A k \in 1..Len(sub) : str[a + k] = sub[k]

\* a successful response whose colour is a string (or a list that starts with
\* one), its category not color_swatch, normalised against a non-empty
\* expected_colors
ColourChecked(i) ==
    /\ Finished(i)
    /\ Interpretable(outcome[i])
    /\ outcome[i].obj.category # "color_swatch"
    /\ "color" \in outcome[i].obj.keys
    /\ \/ outcome[i].obj.color.kind = "str"
       \/ outcome[i].obj.color.kind = "list" /\ outcome[i].obj.color.elem = "str"
    /\ expected_colors # <<>>

\* the reported colour as the match sees it: trimmed, cut at the first comma,
\* trimmed again
Reported(i) == strip(split_first(strip(outcome[i].obj.color.s)))

\* C1: once classify_product_images_async has returned for a product of
\* N >= 1 images, the list holds exactly N records and every image has exactly
\* one record carrying its file name, whatever mix of successes and failures
C1_Cardinality ==
    (Returned /\ N >= 1) =>
        /\ Len(classifications) = N
        /\ \A i \in 1..N :
              Cardinality({k \in 1..Len(classifications) :
                              classifications[k].file_name = images[i]}) = 1

C1_Witness ==
    /\ pc = "done"
    /\ N = MaxImages
    /\ \E i, j \in 1..N : /\ Interpretable(outcome[i])
                          /\ ~Interpretable(outcome[j])

\* C2: the number of tasks between acquiring and releasing the semaphore never
\* exceeds MAX_CONCURRENT_REQUESTS, also with more images than permits
C2_BoundedConcurrency ==
    Cardinality(InFlight) <= MAX_CONCURRENT_REQUESTS

C2_Witness ==
    /\ Cardinality(InFlight) = MAX_CONCURRENT_REQUESTS
    /\ \E i \in Tasks : task[i] = "pending"

\* C3: select_best_images runs only after gather has returned: from the moment
\* its argument exists, every task of the product has finished with a record
\* and the list holds all N of them
C3_JoinBarrier ==
    (pc = "classified" \/ selected # <<>>) =>
        /\ \A i \in 1..N : Finished(i) /\ ret[i] # <<>>
        /\ Len(classifications) = N

C3_Witness ==
    /\ selected # <<>>
    /\ N > MAX_CONCURRENT_REQUESTS

\* C4: for fixed images and fixed classifier outcomes the returned list is the
\* same in every interleaving, namely the records in ascending file name
\* order, and so is the SelectionResult
C4_OrderIndependence ==
    /\ Returned => classifications = ReferenceClassifications
    /\ pc = "done" => selected = <<select_best_images(ReferenceClassifications)>>

\* a run in which the tasks finished in an order other than file name order
C4_Witness ==
    /\ pc = "done"
    /\ \E k \in 1..(Len(printed) - 1) : printed[k][2] > printed[k + 1][2]

\* the task of this response reaches its return statement: the response is
\* interpretable and its progress line can be printed
Succeeds(out) == Interpretable(out) /\ ~print_raises(out.obj)

\* C5: a failing image never makes the batch raise, never leaves a task
\* abandoned, gives its permit back, and leaves the record of every image
\* that succeeds exactly what that image's own response determines
C5_FailureIsolation ==
    /\ pc # "raised"
    /\ \A i \in Tasks : task[i] # "raised"
    /\ pc = "gather" => semaphore = MAX_CONCURRENT_REQUESTS - Cardinality(InFlight)
    /\ \A j \in Tasks :
          (Finished(j) /\ Succeeds(outcome[j])) =>
              ret[j] = <<success_record(images[j], outcome[j].obj, expected_colors)>>

\* a failed image finished first and a sibling succeeded after it
C5_Witness ==
    /\ pc = "done"
    /\ \E i, j \in 1..N :
          /\ ~Interpretable(outcome[i])
          /\ Interpretable(outcome[j])
          /\ \E k, l \in 1..Len(printed) :
                k < l /\ printed[k][2] = images[i] /\ printed[l][2] = images[j]

\* C6: a task whose call raised, or whose response is neither an object nor
\* an array starting with an object, returns the failure record: category
\* "error", colour null, confidence 0, quality_score 0, has_multiple_items
\* false, an error text, and its own file name and path
C6_FailureRecord ==
    \A i \in Tasks :
        (Finished(i) /\ ~Interpretable(outcome[i])) =>
            LET r == ret[i][1] IN
            /\ {"category", "color", "confidence", "quality_score",
                "has_multiple_items", "error", "file_name", "file_path"}
                  \subseteq r.keys
            /\ r.category = "error"
            /\ r.color = PyNone
            /\ r.confidence = 0
            /\ r.quality_score = 0
            /\ r.has_multiple_items = FALSE
            /\ r.error # "-"
            /\ r.file_name = images[i]
            /\ r.file_path = file_path_of(images[i])

C6_Witness ==
    \E i \in Tasks :
        /\ Finished(i)
        /\ outcome[i].kind = "list_nondict"
        /\ ret[i][1].category = "error"

\* C7: a response of category color_swatch is normalised to colour null,
\* whatever its raw colour and whatever expected_colors
C7_SwatchColorNull ==
    \A i \in Tasks :
        (/\ Finished(i)
         /\ Interpretable(outcome[i])
         /\ "category" \in outcome[i].obj.keys
         /\ outcome[i].obj.category = "color_swatch") =>
            /\ "color" \in ret[i][1].keys
            /\ ret[i][1].color = PyNone

\* a swatch whose raw colour is itself an expected colour
C7_Witness ==
    \E i \in Tasks :
        /\ Finished(i)
        /\ outcome[i].kind = "dict"
        /\ outcome[i].obj.category = "color_swatch"
        /\ outcome[i].obj.color = RawStr(<<"a">>)
        /\ expected_colors = <<<<"a">>>>
        /\ ret[i][1].category = "color_swatch"

\* C8 as stated: every record of category product_info has colour null
C8_InfoColorNull ==
    \A i \in Tasks :
        (Finished(i) /\ ret[i][1].category = "product_info") =>
            ret[i][1].color = PyNone

\* C8 amended: only color_swatch forces the colour to null; a product_info
\* record carries coerce_color of its raw colour, so it keeps a colour that
\* coerce_color accepts
C8_InfoColorCoerced ==
    \A i \in Tasks :
        (/\ Finished(i)
         /\ Interpretable(outcome[i])
         /\ outcome[i].obj.category = "product_info") =>
            /\ ret[i][1].category = "product_info"
            /\ ret[i][1].color = coerce_color(outcome[i].obj.color, expected_colors)
            /\ (outcome[i].obj.color = RawStr(<<"a">>) /\ expected_colors = <<>>)
                  => ret[i][1].color = PyStr(<<"a">>)

C8_Witness ==
    \E i \in Tasks :
        /\ Finished(i)
        /\ ret[i][1].category = "product_info"
        /\ ret[i][1].color = PyStr(<<"a">>)

\* C9: with expected_colors non-empty, a reported colour that contains an
\* expected value resolves to an expected value it contains, and one that
\* contains none resolves to null; with expected [ivory, beige], "ivory blend"
\* resolves to ivory and navy to null
C9_ExpectedContainment ==
    \A i \in Tasks :
        ColourChecked(i) =>
            LET c == ret[i][1].color
                hits == {k \in 1..Len(expected_colors) :
                            Occurs(expected_colors[k], Reported(i))}
            IN /\ hits # {} =>
                    /\ c.kind = "str"
                    /\ \E k \in hits : c.s = expected_colors[k]
               /\ hits = {} => c = PyNone
               /\ (/\ expected_colors = <<Ivory, Beige>>
                   /\ outcome[i].obj.color = RawStr(IvoryBlend)) => c = PyStr(Ivory)
               /\ (/\ expected_colors = <<Ivory, Beige>>
                   /\ outcome[i].obj.color = RawStr(Navy)) => c = PyNone

C9_Witness ==
    \E i \in Tasks :
        /\ ColourChecked(i)
        /\ expected_colors = <<Ivory, Beige>>
        /\ outcome[i].obj.color = RawStr(IvoryBlend)
        /\ ret[i][1].color = PyStr(Ivory)

\* C10 as stated: the trimmed reported colour is accepted iff it occurs in
\* (or equals) an expected value; the first such expected value is the result
C10_AcceptedIfInsideExpected ==
    \A i \in Tasks :
        ColourChecked(i) =>
            LET hits == {k \in 1..Len(expected_colors) :
                            Occurs(Reported(i), expected_colors[k])}
            IN ret[i][1].color =
                  IF hits = {} THEN PyNone
                  ELSE PyStr(expected_colors[CHOOSE k \in hits :
                                                \A j \in hits : k <= j])

\* C10 amended: the trimmed reported colour is accepted iff an expected value
\* occurs in (or equals) it; the first such expected value in list order is
\* the result, and null if there is none
C10_AcceptedIfContainsExpected ==
    \A i \in Tasks :
        ColourChecked(i) =>
            LET hits == {k \in 1..Len(expected_colors) :
                            Occurs(expected_colors[k], Reported(i))}
            IN ret[i][1].color =
                  IF hits = {} THEN PyNone
                  ELSE PyStr(expected_colors[CHOOSE k \in hits :
                                                \A j \in hits : k <= j])

\* two expected values occur in the reported colour; the first one wins
C10_Witness ==
    \E i \in Tasks :
        /\ ColourChecked(i)
        /\ expected_colors = <<<<"b">>, <<"a">>>>
        /\ Reported(i) = <<"a", "b">>
        /\ ret[i][1].color = PyStr(<<"b">>)


\* null, or exactly one of the expected colours
InExpected(c) ==
    \/ c = PyNone
    \/ c.kind = "str" /\ \E k \in 1..Len(expected_colors) : c.s = expected_colors[k]

\* C11: whenever expected_colors is non-empty, every record a task returns,
\* on the success path or the failure path, and every record handed to the
\* selection has a colour that is null or a member of expected_colors
C11_ColourMembership ==
    expected_colors # <<>> =>
        /\ \A i \in Tasks :
              Finished(i) => "color" \in ret[i][1].keys /\ InExpected(ret[i][1].color)
        /\ \A k \in 1..Len(classifications) : InExpected(classifications[k].color)

\* a reported colour that is no expected colour itself, resolved to one
C11_Witness ==
    \E i \in Tasks :
        /\ pc = "done"
        /\ ColourChecked(i)
        /\ Reported(i) = <<"a", " ", "b">>
        /\ expected_colors = <<<<"b">>>>
        /\ classifications[i].color = PyStr(<<"b">>)


Items == {classifications[k] : k \in 1..Len(classifications)}
Colours == {x.color.s : x \in {y \in Items : y.color.kind = "str"}}
OfColour(c) == {x \in Items : x.color = PyStr(c)}
WornOf(c) == {x \in OfColour(c) : x.category \in {"worn_front", "worn_side", "worn_back"}}
Result == selected[1]

\* x ranks at least as high as y: higher confidence, then higher quality
AtLeast(x, y) ==
    \/ x.confidence > y.confidence
    \/ x.confidence = y.confidence /\ x.quality_score >= y.quality_score

\* C12: worn_shots_by_color holds exactly the colours that have a worn image,
\* and the image chosen for a colour is one of its worn images that no other
\* undercuts: a worn_front image beats every worn_side / worn_back image
\* whatever the confidences, and within the same facing the higher
\* confidence wins, then the higher quality_score
C12_WornShotRanking ==
    pc = "done" =>
        /\ DOMAIN Result.worn_shots_by_color = {c \in Colours : WornOf(c) # {}}
        /\ \A c \in DOMAIN Result.worn_shots_by_color :
              LET w == Result.worn_shots_by_color[c] IN
              /\ w \in WornOf(c)
              /\ \A y \in WornOf(c) :
                    IF (w.category = "worn_front") # (y.category = "worn_front")
                    THEN w.category = "worn_front"
                    ELSE AtLeast(w, y)

\* a worn_front image at 0.40 chosen over a worn_side image at 0.99
C12_Witness ==
    /\ pc = "done"
    /\ \E c \in DOMAIN Result.worn_shots_by_color :
          /\ Result.worn_shots_by_color[c].category = "worn_front"
          /\ Result.worn_shots_by_color[c].confidence = 40
          /\ \E y \in WornOf(c) : y.category = "worn_side" /\ y.confidence = 99


DetailSet == {"product_front", "product_back", "detail_neckline",
              "detail_sleeve", "detail_hem"}

DetailOf(c, cat) == {x \in OfColour(c) : x.category = cat}
Covered(c) == {cat \in DetailSet : DetailOf(c, cat) # {}}

BestConfidence(c, cat) ==
    IF cat \in Covered(c)
    THEN CHOOSE m \in {x.confidence : x \in DetailOf(c, cat)} :
            \A x \in DetailOf(c, cat) : x.confidence <= m
    ELSE 0

ConfidenceSum(c) ==
    BestConfidence(c, "product_front") + BestConfidence(c, "product_back")
    + BestConfidence(c, "detail_neckline") + BestConfidence(c, "detail_sleeve")
    + BestConfidence(c, "detail_hem")

IsComplete(c) == IF Covered(c) = DetailSet THEN 1 ELSE 0

\* (is_complete, coverage_count, sum_of_best_confidences) of c is below that of d
ScoreBelow(c, d) ==
    \/ IsComplete(c) < IsComplete(d)
    \/ /\ IsComplete(c) = IsComplete(d)
       /\ \/ Cardinality(Covered(c)) < Cardinality(Covered(d))
          \/ /\ Cardinality(Covered(c)) = Cardinality(Covered(d))
             /\ ConfidenceSum(c) < ConfidenceSum(d)

\* C13: when some image carries a colour, representative_color is a colour
\* whose score (is_complete, coverage_count, sum_of_best_confidences) no other
\* colour exceeds; so a colour covering all five detail categories beats one
\* covering fewer, and more coverage beats less, whatever the confidences
C13_RepresentativeScore ==
    (pc = "done" /\ Colours # {}) =>
        /\ "representative_color" \in Result.keys
        /\ Result.representative_color.kind = "str"
        /\ Result.representative_color.s \in Colours
        /\ \A c \in Colours : ~ScoreBelow(Result.representative_color.s, c)
        /\ \A c \in Colours :
              Cardinality(Covered(c)) < Cardinality(Covered(Result.representative_color.s))
                 => Result.representative_color.s # c

\* colour a covers all five at 0.5, colour b, seen first, covers four at 0.99
C13_Witness ==
    /\ pc = "done"
    /\ Result.representative_color = PyStr(<<"a">>)
    /\ classifications[1].color = PyStr(<<"b">>)
    /\ Covered(<<"a">>) = DetailSet
    /\ Cardinality(Covered(<<"b">>)) = 4
    /\ \A x \in OfColour(<<"a">>) : x.confidence = 50
    /\ \A x \in OfColour(<<"b">>) : x.confidence = 99


SizeCharts == {x \in Items : x.category = "size_chart"}
ProductInfos == {x \in Items : x.category = "product_info"}
InfoImages == Result.info_images

\* x is a best image of S: none of S ranks strictly above it
BestOf(x, S) == x \in S /\ \A y \in S : AtLeast(x, y)

\* C14: info_images.size and info_images.product_info never hold the same
\* file; product_info is filled iff a product_info image exists and the best
\* one is another file than the image chosen for size: with a size_chart and
\* a product_info image both slots are filled, and when size fell back to the
\* best product_info image only size is filled
C14_InfoNoDuplication ==
    pc = "done" =>
        /\ {"size", "product_info"} \subseteq DOMAIN InfoImages =>
              /\ InfoImages["size"].file_path # InfoImages["product_info"].file_path
              /\ InfoImages["size"].file_name # InfoImages["product_info"].file_name
        /\ "product_info" \in DOMAIN InfoImages =>
              BestOf(InfoImages["product_info"], ProductInfos)
        /\ (SizeCharts # {} /\ ProductInfos # {}) =>
              /\ {"size", "product_info"} \subseteq DOMAIN InfoImages
              /\ InfoImages["size"] \in SizeCharts
        /\ (SizeCharts = {} /\ ProductInfos # {}) =>
              /\ "size" \in DOMAIN InfoImages
              /\ BestOf(InfoImages["size"], ProductInfos)
              /\ "product_info" \notin DOMAIN InfoImages
        /\ ProductInfos = {} => "product_info" \notin DOMAIN InfoImages

\* size fell back to the best of two product_info images
C14_Witness ==
    /\ pc = "done"
    /\ SizeCharts = {}
    /\ Cardinality(ProductInfos) = 2
    /\ "size" \in DOMAIN InfoImages
    /\ InfoImages["size"].category = "product_info"
    /\ "product_info" \notin DOMAIN InfoImages


C16_EmptyProductError ==
    N = 0 => (pc \notin {"classified", "done"} /\ selected = <<>>)


\* C17: for every list of records the classification of a product returns,
\* select_best_images returns a result and does not raise
C17_SelectionNeverThrows ==
    /\ pc # "raised"
    /\ pc = "classified" => ~select_raises(classifications)


\* C19: every record classify_image_async returns has a category, and it is
\* one of the fifteen enumerated categories or "error", whatever the raw
\* response was
C19_ClosedCategorySet ==
    \A i \in Tasks :
        Finished(i) =>
            /\ "category" \in ret[i][1].keys
            /\ ret[i][1].category \in IMAGE_CATEGORIES \cup {"error"}


\* C20: for each of the five detail categories, representative_details holds
\* the category iff the representative colour has an image of it, and the
\* image held is one of the representative colour's images of that category
\* with the highest confidence, then the highest quality_score; an image of
\* another colour is never chosen
C20_DetailsOfRepresentativeColour ==
    (pc = "done" /\ "representative_color" \in Result.keys) =>
        LET rep == Result.representative_color.s IN
        /\ DOMAIN Result.representative_details = Covered(rep)
        /\ \A cat \in Covered(rep) :
              /\ Result.representative_details[cat].color = PyStr(rep)
              /\ BestOf(Result.representative_details[cat], DetailOf(rep, cat))

\* a detail held for the representative colour although another colour has
\* an image of the same category with a higher confidence
C20_Witness ==
    /\ pc = "done"
    /\ "representative_color" \in Result.keys
    /\ \E cat \in DOMAIN Result.representative_details :
          \E y \in Items :
              /\ y.category = cat
              /\ y.color.kind = "str"
              /\ y.color # Result.representative_color
              /\ y.confidence > Result.representative_details[cat].confidence


SameRank(x, y) == x.confidence = y.confidence /\ x.quality_score = y.quality_score

\* two candidates of S share the sort key (-confidence, -quality_score)
Tied(S) == \E x, y \in S : x # y /\ SameRank(x, y)

\* two worn shots of colour c share the key (not worn_front, -confidence,
\* -quality_score)
WornTied(c) ==
    \E x, y \in WornOf(c) :
        /\ x # y
        /\ SameRank(x, y)
        /\ (x.category = "worn_front") = (y.category = "worn_front")

ColoursTied ==
    \E c, d \in Colours : c # d /\ ~ScoreBelow(c, d) /\ ~ScoreBelow(d, c)

TopColour == CHOOSE c \in Colours : \A d \in Colours : ~ScoreBelow(c, d)

CompositionCandidates == {x \in Items : is_info(x) /\ has_composition(x)}

\* no two candidates of a slot tie on the slot's sort key, and no two
\* colours tie on the representative-colour score
NoTies ==
    /\ ~ColoursTied
    /\ \A c \in Colours : ~WornTied(c) /\ ~Tied(DetailOf(c, "product_front"))
    /\ Colours # {} => \A cat \in DetailSet : ~Tied(DetailOf(TopColour, cat))
    /\ ~Tied(SizeCharts)
    /\ ~Tied(ProductInfos)
    /\ ~Tied(CompositionCandidates)

InFileOrder == sort_by_file_name(classifications)

\* C18: when no two candidates of a slot tie on its sort key and no two
\* colours tie on the representative-colour score, select_best_images gives
\* for any arrangement of the list the worn_shots_by_color,
\* product_shots_by_color, representative_color, representative_details and
\* info_images it gives for the list in file-name order, so all arrangements
\* of one list give the same five values
C18_PermutationInvariance ==
    (pc = "done" /\ NoTies) =>
        LET canonical == select_best_images(InFileOrder) IN
        /\ Result.worn_shots_by_color = canonical.worn_shots_by_color
        /\ Result.product_shots_by_color = canonical.product_shots_by_color
        /\ Result.representative_color = canonical.representative_color
        /\ Result.representative_details = canonical.representative_details
        /\ Result.info_images = canonical.info_images

\* a list out of file-name order and without ties, whose first colour is not
\* the representative one and where a colour has two worn shots to rank
C18_Witness ==
    /\ pc = "done"
    /\ NoTies
    /\ classifications # InFileOrder
    /\ classifications[1].color.kind = "str"
    /\ Result.representative_color.kind = "str"
    /\ Result.representative_color # classifications[1].color
    /\ \E c \in Colours : Cardinality(WornOf(c)) >= 2


CarriesComposition(x) ==
    /\ x.extracted.kind = "dict"
    /\ \/ x.extracted.composition \notin {"null", ""}
       \/ x.extracted.material \notin {"null", ""}

CompositionImages ==
    {x \in Items : x.category \in {"size_chart", "product_info"} /\ CarriesComposition(x)}

\* C22: info_images.composition is present iff some size_chart or
\* product_info image carries non-empty extracted composition or material
\* text; it is then such an image of the highest confidence, then quality,
\* and never an image of another category
C22_CompositionSlot ==
    pc = "done" =>
        /\ "composition" \in DOMAIN InfoImages <=> CompositionImages # {}
        /\ "composition" \in DOMAIN InfoImages =>
              /\ InfoImages["composition"].category \in {"size_chart", "product_info"}
              /\ BestOf(InfoImages["composition"], CompositionImages)

\* a composition image at 0.40 chosen although a detail_material image
\* carries composition text at 0.99
C22_Witness ==
    /\ pc = "done"
    /\ "composition" \in DOMAIN InfoImages
    /\ InfoImages["composition"].confidence = 40
    /\ \E y \in Items :
          /\ y.category = "detail_material"
          /\ CarriesComposition(y)
          /\ y.confidence = 99


\* position of the record x in the input list
Pos(x) == CHOOSE k \in 1..Len(classifications) : classifications[k] = x

\* position of the first image of colour c
FirstSeen(c) ==
    CHOOSE k \in 1..Len(classifications) :
        /\ classifications[k].color = PyStr(c)
        /\ \A j \in 1..(k - 1) : classifications[j].color # PyStr(c)

SameScore(c, d) == ~ScoreBelow(c, d) /\ ~ScoreBelow(d, c)

\* x is the earliest of the candidates of S that share its sort key
EarliestOfRank(x, S) == \A y \in S : SameRank(x, y) => Pos(x) <= Pos(y)

SizeCandidates == IF SizeCharts # {} THEN SizeCharts ELSE ProductInfos

\* C23: a colour whose score equals that of representative_color has its
\* first image later in the input list (first-seen wins); in every slot the
\* chosen image is the earliest of the candidates that share its sort key
\* (the sorts are stable); and the result is a function of the input list
\* alone, so a repeated run on the same list returns the same result
C23_DeterministicTieBreaks ==
    pc = "done" =>
        /\ Result = select_best_images(classifications)
        /\ Colours # {} =>
              \A c \in Colours \ {Result.representative_color.s} :
                  SameScore(c, Result.representative_color.s) =>
                      FirstSeen(Result.representative_color.s) < FirstSeen(c)
        /\ \A c \in DOMAIN Result.worn_shots_by_color :
              LET w == Result.worn_shots_by_color[c] IN
              EarliestOfRank(w, {y \in WornOf(c) :
                                    (y.category = "worn_front") = (w.category = "worn_front")})
        /\ \A c \in DOMAIN Result.product_shots_by_color :
              EarliestOfRank(Result.product_shots_by_color[c], DetailOf(c, "product_front"))
        /\ \A cat \in DOMAIN Result.representative_details :
              EarliestOfRank(Result.representative_details[cat],
                             DetailOf(Result.representative_color.s, cat))
        /\ "size" \in DOMAIN InfoImages =>
              EarliestOfRank(InfoImages["size"], SizeCandidates)
        /\ "composition" \in DOMAIN InfoImages =>
              EarliestOfRank(InfoImages["composition"], CompositionImages)
        /\ "product_info" \in DOMAIN InfoImages =>
              EarliestOfRank(InfoImages["product_info"], ProductInfos)

\* two colours of equal score, the representative one seen first, and a
\* colour with two worn shots of equal key, the earlier one chosen
C23_Witness ==
    /\ pc = "done"
    /\ \E c \in Colours \ {Result.representative_color.s} :
          /\ SameScore(c, Result.representative_color.s)
          /\ FirstSeen(Result.representative_color.s) < FirstSeen(c)
    /\ \E c \in DOMAIN Result.worn_shots_by_color :
          \E y \in WornOf(c) :
              /\ y # Result.worn_shots_by_color[c]
              /\ y.category = Result.worn_shots_by_color[c].category
              /\ SameRank(y, Result.worn_shots_by_color[c])
              /\ Pos(Result.worn_shots_by_color[c]) < Pos(y)


Running == pc \in {"start", "gather"}

AllReleased ==
    /\ semaphore = MAX_CONCURRENT_REQUESTS
    /\ \A i \in 1..N : task[i] = "done"

\* C24: when every executor call returns or raises, every task gets a
\* permit, finishes and gives the permit back, after a failure as after a
\* success: classify_product_images_async returns, and when it has returned
\* every task is done and all MAX_CONCURRENT_REQUESTS permits are free
C24_NoPermitLeak ==
    /\ <>(~Running)
    /\ [](~Running => AllReleased)

\* more images than permits, a call that failed and a call that succeeded,
\* all permits free after the return
C24_Witness ==
    /\ pc = "classified"
    /\ N > MAX_CONCURRENT_REQUESTS
    /\ AllReleased
    /\ \E i \in 1..N : ret[i][1].category = "error"
    /\ \E i \in 1..N : ret[i][1].category # "error"


\* the images whose task has returned a record
Counted == {i \in Tasks : task[i] = "done"}

\* C25: in every interleaving progress["done"] counts the returned tasks,
\* one step per image whether it succeeded or failed, never passes
\* progress["total"], the values reported are 1, 2, ... in turn, each once
\* and each for another image, and the counter is N once the gather is over
C25_ProgressCounter ==
    pc # "start" =>
        /\ progress.total = N
        /\ progress.done = Cardinality(Counted)
        /\ progress.done <= progress.total
        /\ Len(printed) = progress.done
        /\ \A k \in 1..Len(printed) : printed[k][1] = k
        /\ \A k, l \in 1..Len(printed) : printed[k][2] = printed[l][2] => k = l
        /\ {printed[k][2] : k \in 1..Len(printed)} = {images[i] : i \in Counted}
        /\ ~Running => progress.done = N



\* every record held in a slot of the result
Placed ==
    {Result.worn_shots_by_color[c] : c \in DOMAIN Result.worn_shots_by_color}
    \cup {Result.product_shots_by_color[c] : c \in DOMAIN Result.product_shots_by_color}
    \cup {Result.representative_details[cat] : cat \in DOMAIN Result.representative_details}
    \cup {InfoImages[k] : k \in DOMAIN InfoImages}

ColourPlaced ==
    {Result.worn_shots_by_color[c] : c \in DOMAIN Result.worn_shots_by_color}
    \cup {Result.product_shots_by_color[c] : c \in DOMAIN Result.product_shots_by_color}
    \cup {Result.representative_details[cat] : cat \in DOMAIN Result.representative_details}

\* C26: every record in a slot of the result is a record of the input list;
\* worn_shots_by_color[c] has colour c and a worn category,
\* product_shots_by_color[c] has colour c and category product_front;
\* representative_color, when present, is the colour of an input image; and
\* no image of null colour stands in worn_shots_by_color,
\* product_shots_by_color or representative_details
C26_SlotConsistency ==
    pc = "done" =>
        /\ Placed \subseteq Items
        /\ \A c \in DOMAIN Result.worn_shots_by_color :
              /\ Result.worn_shots_by_color[c].color = PyStr(c)
              /\ Result.worn_shots_by_color[c].category
                    \in {"worn_front", "worn_side", "worn_back"}
        /\ \A c \in DOMAIN Result.product_shots_by_color :
              /\ Result.product_shots_by_color[c].color = PyStr(c)
              /\ Result.product_shots_by_color[c].category = "product_front"
        /\ "representative_color" \in Result.keys =>
              \E x \in Items : x.color = Result.representative_color
        /\ \A x \in ColourPlaced : x.color.kind = "str"

\* a worn shot without colour outranks the worn shot chosen for a colour and
\* stands in no slot
C26_Witness ==
    /\ pc = "done"
    /\ \E c \in DOMAIN Result.worn_shots_by_color :
          \E y \in Items :
              /\ y.color = PyNone
              /\ y.category = "worn_front"
              /\ y.confidence > Result.worn_shots_by_color[c].confidence
              /\ y \notin Placed


\* the steps a stored status may take; a job without row has status "none"
StatusSteps ==
    {<<"none", "queued">>, <<"queued", "running">>, <<"running", "succeeded">>,
     <<"running", "failed">>}

\* C27: the stored status of a job only moves queued -> running -> succeeded
\* or queued -> running -> failed, so a terminal status is never overwritten;
\* the row exists with status queued when the job is handed to the executor
\* and until a thread has taken it; error is non-null only in status failed
C27_JobStatusMachine ==
    /\ [][\A j \in JobIds :
             jobs'[j] # jobs[j] => <<jobs[j].status, jobs'[j].status>> \in StatusSteps]_vars
    /\ [](\A j \in JobIds :
             /\ worker[j].pc \in {"created", "submitted", "begin"} =>
                   jobs[j].status = "queued"
             /\ jobs[j].error # "null" => jobs[j].status = "failed")

\* one job failed with an error text, another one succeeded
C27_Witness ==
    \E j, k \in JobIds :
        /\ jobs[j].status = "failed"
        /\ jobs[j].error # "null"
        /\ jobs[k] = [status |-> "succeeded", error |-> "null"]
        /\ worker[j].pc = "closed"
        /\ worker[k].pc = "closed"


\* the products the crawl of job j returned
CrawledBy(j) == {worker[j].products[k] : k \in 1..Len(worker[j].products)}

\* C28: the result and products endpoints answer 404 for an unknown job, 409
\* for a queued or running one, 500 for a failed one and read the product
\* list only for a succeeded one; a job is succeeded only when every product
\* of its crawl has its row and its link committed; so the list a request
\* reads is the complete product set of the job
C28_ResultsAfterSuccess ==
    /\ \A j \in JobIds :
          /\ jobs[j].status = "none" => status_code(jobs[j].status) = 404
          /\ jobs[j].status \in {"queued", "running"} =>
                status_code(jobs[j].status) = 409
          /\ jobs[j].status = "failed" => status_code(jobs[j].status) = 500
          /\ jobs[j].status = "succeeded" =>
                /\ status_code(jobs[j].status) = 200
                /\ \A sno \in CrawledBy(j) :
                      <<j, sno>> \in job_products /\ products[sno] # NoRow
    /\ client.pc = "products" =>
          /\ jobs[client.job].status = "succeeded"
          /\ db_get_job_products(client.job) = CrawledBy(client.job)

\* a request about a succeeded job of two products is about to read them
\* while another job holds the write lock in the middle of its upsert
C28_Witness ==
    /\ client.pc = "products"
    /\ Cardinality(CrawledBy(client.job)) = 2
    /\ lock \notin {0, client.job}
    /\ jobs[lock].status = "running"


\* C30: when two jobs have both upserted the same sno and neither met a lock
\* timeout, the sno has one row, both jobs have their job_products link and
\* neither job is failed
C30_ConcurrentUpsert ==
    \A j, k \in JobIds, sno \in Snos :
        ( /\ j # k
          /\ sno \in CrawledBy(j) \cap CrawledBy(k)
          /\ worker[j].pc = "closed" /\ worker[j].exc # "OperationalError"
          /\ worker[k].pc = "closed" /\ worker[k].exc # "OperationalError" ) =>
            /\ products[sno] # NoRow
            /\ <<j, sno>> \in job_products
            /\ <<k, sno>> \in job_products
            /\ jobs[j].status = "succeeded"
            /\ jobs[k].status = "succeeded"


\* the products found so far
Found == {crawl.found_products[n] : n \in 1..Len(crawl.found_products)}

\* C29: fetch_products_by_category holds at most max_products_per_target
\* products, of pairwise distinct sno, none of them in exclude_snos, each
\* meeting the three thresholds; it fetches the review of a sno at most
\* once, handles no listing entry once the target is reached, and returns
\* only when the target is reached or the page carried no next_token
C29_CrawlPageLoop ==
    /\ Len(crawl.found_products) <= site.max_products_per_target
    /\ \A m, n \in 1..Len(crawl.found_products) :
          m # n => crawl.found_products[m].sno # crawl.found_products[n].sno
    /\ \A p \in Found :
          /\ p.sno \in CrawlSnos \ site.exclude_snos
          /\ int_or_0(p.sell_count) >= min_purchase_count
          /\ p.review_count >= min_review_count
          /\ p.positive_percent >= min_positive_percent
    /\ \A sno \in CrawlSnos : crawl.fetched[sno] <= 1
    /\ crawl.pc = "for" =>
          Len(crawl.found_products) < site.max_products_per_target
    /\ crawl.pc = "endfor" =>
          Len(crawl.found_products) = site.max_products_per_target
    /\ crawl.pc = "returned" =>
          \/ Len(crawl.found_products) = site.max_products_per_target
          \/ crawl.next_token = ""

\* C29 witness: a call returned with the target reached, having skipped an
\* excluded sno and fetched the review of a product it then rejected
C29_Witness ==
    /\ crawl.pc = "returned"
    /\ site.max_products_per_target > 0
    /\ Len(crawl.found_products) = site.max_products_per_target
    /\ site.exclude_snos # {}
    /\ \E sno \in crawl.checked_snos :
          /\ crawl.fetched[sno] = 1
          /\ \A p \in Found : p.sno # sno

====
